---- MODULE Spec2Model ----
(***************************************************************************)
(* A model of the proc-mounts crate: the octal value decoder, the mount    *)
(* record parser and serializer, the row iterators, the mount list         *)
(* queries, the editable mount tab and the change-watching cache.          *)
(*                                                                         *)
(* Text is modelled as sequences of bytes (naturals below 256).  Results   *)
(* of fallible operations are records: Ok(v) or Err(e).                    *)
(***************************************************************************)
EXTENDS Integers, Sequences, FiniteSets, TLC

VARIABLES
    pc,         \* position of the sequential scenario being run
    value,      \* parse_value: the field text handed to the decoder
    decoded,    \* parse_value: its result
    line,       \* MountInfo::from_str: the line being parsed
    byPath,     \* outcome of the external /dev/disk/by-* lookup
    parsed,     \* MountInfo::from_str: its result
    text,       \* Display for MountInfo: the serialized record
    reparsed,   \* MountInfo::from_str applied to `text`
    input,      \* row iterators: the events the reader will deliver
    reader,     \* row iterators: the events not yet consumed (self.file)
    items,      \* row iterators: what next() has returned, in order
    collected,  \* MountList / SwapList: result of new_from_reader on the input
    mounts,     \* MountList: the list queried
    query,      \* MountList: the record whose source/dest are looked up
    answer,     \* MountList: results of the queries
    tabText,    \* MountTab: the lines of the text parsed
    tab,        \* MountTab: result of MountTab::from_str
    tabOut,     \* MountTab: the lines written by Display for MountTab
    file,       \* watcher: current content of the watched file
    snapshot,   \* watcher: the value inside the shared RwLock
    modified,   \* watcher: the stored hash (*modified)
    wpc,        \* watcher: position of the lazy initialiser / watcher thread
    lastHash,   \* watcher: how the latest get_file_hash went and what it returned
    new_swaps,  \* watcher: the collection create_new() returned in this tick
    readers,    \* RwLock: number of read guards held
    writer,     \* RwLock: the watcher holds the write guard
    replacing,  \* watcher: the in-place replacement `**swaps = ..` is under way
    ticks,      \* watcher: ticks that read the whole file for their hash since it last changed
    faults      \* watcher: what has failed so far: "open", "read" (of a hash), "parse"

valueVars == <<value, decoded>>
infoVars == <<line, byPath, parsed, text, reparsed>>
iterVars == <<input, reader, items, collected>>
listVars == <<mounts, query, answer>>
tabVars == <<tabText, tab, tabOut>>
watchVars == <<file, snapshot, modified, wpc, lastHash, new_swaps, readers,
               writer, replacing, ticks, faults>>
vars == <<pc, valueVars, infoVars, iterVars, listVars, tabVars, watchVars>>

(***************************************************************************)
(* Bounds of the model.                                                    *)
(***************************************************************************)
MaxValueLen == 5
MaxExtraFields == 1
MaxLines == 3
MaxMounts == 3
MaxTabLines == 3
MaxReaders == 2
MaxTicks == 3

(***************************************************************************)
(* Bytes the code tests for.                                               *)
(***************************************************************************)
BSlash == 92
Hash == 35
Comma == 44
Space == 32
Tab == 9
NewLine == 10
Zero == 48
Minus == 45
Plus == 43

Ok(v) == [ok |-> TRUE, val |-> v]
Err(e) == [ok |-> FALSE, err |-> e]

\* The value a variable holds while its scenario is not running.
Idle == <<>>

ValueIdle == value = Idle /\ decoded = Idle
InfoIdle == line = Idle /\ byPath = Idle /\ parsed = Idle /\ text = Idle /\ reparsed = Idle
IterIdle == input = Idle /\ reader = Idle /\ items = Idle /\ collected = Idle
ListIdle == mounts = Idle /\ query = Idle /\ answer = Idle
TabIdle == tabText = Idle /\ tab = Idle /\ tabOut = Idle
WatchIdle ==
    /\ file = Idle /\ snapshot = Idle /\ modified = Idle /\ wpc = Idle
    /\ lastHash = Idle /\ new_swaps = Idle /\ readers = Idle /\ writer = Idle
    /\ replacing = Idle /\ ticks = Idle /\ faults = Idle

RECURSIVE SeqsUpTo(_, _)
SeqsUpTo(S, n) ==
    IF n = 0 THEN {<<>>}
    ELSE LET shorter == SeqsUpTo(S, n - 1)
         IN  shorter \cup {Append(s, x) : s \in {t \in shorter : Len(t) = n - 1}, x \in S}

(***************************************************************************)
(* parse_value: decoding of backslash-octal escapes.                       *)
(***************************************************************************)

\* u32::from_str_radix(&(b as char).to_string(), radix) for a single byte:
\* only the digits below the radix parse; a lone sign, any other byte and
\* any byte above 127 are errors.
from_str_radix(b, radix) ==
    IF b >= Zero /\ b < Zero + radix THEN Ok(b - Zero) ELSE Err("InvalidDigit")

\* The `for _i in 0..3` loop: n digits still to read, starting at value[i].
RECURSIVE octal_code(_, _, _, _, _)
octal_code(value_, i, n, code, radix) ==
    IF n = 0 THEN Ok(code)
    ELSE IF i > Len(value_) THEN Err("TruncatedOctal")
    ELSE LET d == from_str_radix(value_[i], radix)
         IN  IF d.ok THEN octal_code(value_, i + 1, n - 1, code * 8 + d.val, radix)
             ELSE d

\* The `while let Some(b) = bytes.next()` loop from position i with `ret`
\* accumulated so far; `code as u8` keeps the low eight bits.
RECURSIVE parse_value_from(_, _, _, _)
parse_value_from(value_, i, ret, radix) ==
    IF i > Len(value_) THEN Ok(ret)
    ELSE IF value_[i] = BSlash
         THEN LET c == octal_code(value_, i + 1, 3, 0, radix)
              IN  IF c.ok
                  THEN parse_value_from(value_, i + 4, Append(ret, c.val % 256), radix)
                  ELSE c
         ELSE parse_value_from(value_, i + 1, Append(ret, value_[i]), radix)

\* A decoder that accepts the digits 8 and 9 in an escape.
parse_value_decimal(value_) == parse_value_from(value_, 1, <<>>, 10)

\* MountInfo::parse_value
MountInfo_parse_value(value_) == parse_value_from(value_, 1, <<>>, 8)

\* SwapInfo::parse_value (the same code, repeated in swaps.rs)
SwapInfo_parse_value(value_) == parse_value_from(value_, 1, <<>>, 8)

(***************************************************************************)
(* MountInfo: parsing of one line (FromStr) and serialization (Display).   *)
(***************************************************************************)

\* The bytes below 128 for which char::is_whitespace holds.
Whitespace == {Tab, NewLine, 11, 12, 13, Space}

IsWhitespace(b) == b \in Whitespace

\* str::trim_start
RECURSIVE trim_start(_)
trim_start(s) ==
    IF s # <<>> /\ IsWhitespace(Head(s)) THEN trim_start(Tail(s)) ELSE s

\* The longest prefix of s free of the separator bytes seps.
RECURSIVE TakeField(_, _)
TakeField(s, seps) ==
    IF s = <<>> \/ Head(s) \in seps THEN <<>>
    ELSE <<Head(s)>> \o TakeField(Tail(s), seps)

\* str::split_whitespace: the maximal runs of non-whitespace bytes.
RECURSIVE split_whitespace(_)
split_whitespace(s) ==
    LET t == trim_start(s)
    IN  IF t = <<>> THEN <<>>
        ELSE LET f == TakeField(t, Whitespace)
             IN  <<f>> \o split_whitespace(SubSeq(t, Len(f) + 1, Len(t)))

\* str::split(','): one more piece than there are commas; pieces may be empty.
RECURSIVE split_comma(_)
split_comma(s) ==
    LET f == TakeField(s, {Comma})
    IN  IF Len(f) = Len(s) THEN <<f>>
        ELSE <<f>> \o split_comma(SubSeq(s, Len(f) + 2, Len(s)))

\* [String]::join(",")
RECURSIVE join_comma(_)
join_comma(opts) ==
    IF opts = <<>> THEN <<>>
    ELSE IF Len(opts) = 1 THEN opts[1]
    ELSE opts[1] \o <<Comma>> \o join_comma(Tail(opts))

IsDigit(b) == b \in Zero .. (Zero + 9)

I32Max == 2147483647
I32Min == 0 - I32Max - 1

\* The digit loop of i32::from_str: checked_mul(10) then checked_add (or
\* checked_sub for a negative number) of each digit; sign is 1 or -1.
RECURSIVE accumulate_i32(_, _, _)
accumulate_i32(ds, acc, sign) ==
    IF ds = <<>> THEN Ok(acc)
    ELSE LET d == Head(ds) - Zero
         IN  IF ~IsDigit(Head(ds)) THEN Err("InvalidDigit")
             ELSE IF sign = 1 /\ acc > (I32Max - d) \div 10 THEN Err("PosOverflow")
             ELSE IF sign = 0 - 1 /\ acc < (I32Min + d + 9) \div 10 THEN Err("NegOverflow")
             ELSE accumulate_i32(Tail(ds), acc * 10 + sign * d, sign)

\* str::parse::<i32>: an optional sign, then at least one digit and nothing
\* else; a value outside the 32-bit range is an error.
parse_i32(s) ==
    LET signed == s # <<>> /\ Head(s) \in {Plus, Minus}
        ds == IF signed THEN Tail(s) ELSE s
    IN  IF ds = <<>> THEN Err("Empty")
        ELSE accumulate_i32(ds, 0, IF signed /\ Head(s) = Minus THEN 0 - 1 ELSE 1)

RECURSIVE NatToBytes(_)
NatToBytes(n) ==
    IF n < 10 THEN <<Zero + n>> ELSE NatToBytes(n \div 10) \o <<Zero + (n % 10)>>

\* Display for i32
\* (the magnitude of i32::MIN is written from that of i32::MAX, whose last
\* digit is one less)
IntToBytes(n) ==
    IF n = I32Min
    THEN <<Minus>> \o NatToBytes(I32Max \div 10) \o <<Zero + (I32Max % 10) + 1>>
    ELSE IF n < 0 THEN <<Minus>> \o NatToBytes(0 - n)
    ELSE NatToBytes(n)

IsCont(s, i) == i <= Len(s) /\ s[i] \in 128 .. 191

\* OsStr::to_str succeeds: the bytes from position i on are well-formed UTF-8.
RECURSIVE IsUtf8From(_, _)
IsUtf8From(s, i) ==
    IF i > Len(s) THEN TRUE
    ELSE LET b == s[i]
         IN  CASE b < 128 -> IsUtf8From(s, i + 1)
               [] b \in 194 .. 223 -> IsCont(s, i + 1) /\ IsUtf8From(s, i + 2)
               [] b \in 224 .. 239 ->
                    /\ IsCont(s, i + 1) /\ IsCont(s, i + 2)
                    /\ (b = 224 => s[i + 1] >= 160)
                    /\ (b = 237 => s[i + 1] <= 159)
                    /\ IsUtf8From(s, i + 3)
               [] b \in 240 .. 244 ->
                    /\ IsCont(s, i + 1) /\ IsCont(s, i + 2) /\ IsCont(s, i + 3)
                    /\ (b = 240 => s[i + 1] >= 144)
                    /\ (b = 244 => s[i + 1] <= 143)
                    /\ IsUtf8From(s, i + 4)
               [] OTHER -> FALSE

\* "/dev/disk/by-"
DiskByPrefix == <<47, 100, 101, 118, 47, 100, 105, 115, 107, 47, 98, 121, 45>>

\* "/dev/x": the device the external lookup reports when it finds one.
DevicePath == <<47, 100, 101, 118, 47, 120>>

HasPrefix(s, p) == Len(s) >= Len(p) /\ SubSeq(s, 1, Len(p)) = p

\* MountInfo::fetch_from_disk_by_path; `lookup` is what the external
\* partition-identity lookup does for this path.
fetch_from_disk_by_path(path, lookup) ==
    CASE lookup = "Unreadable" -> Err("InvalidData")
      [] lookup = "NoDevice" -> Err("NotFound")
      [] OTHER -> Ok(DevicePath)

\* parse_value followed by to_str, as done for source and for dest.
decode_path(field) ==
    LET v == MountInfo_parse_value(field)
    IN  IF ~v.ok THEN v
        ELSE IF ~IsUtf8From(v.val, 1) THEN Err("non-utf8 paths are unsupported")
        ELSE v

\* A parser in which the dump and pass columns are required.
numeric_column_required(parts, k, why) ==
    IF Len(parts) < k THEN Err("missing number")
    ELSE IF parse_i32(parts[k]).ok THEN parse_i32(parts[k]) ELSE Err(why)

\* The numeric column at position k of parts: 0 when the column is absent.
numeric_column(parts, k, why) ==
    IF Len(parts) < k THEN Ok(0)
    ELSE IF parse_i32(parts[k]).ok THEN parse_i32(parts[k]) ELSE Err(why)

\* impl FromStr for MountInfo
MountInfo_from_str(line_, lookup) ==
    LET parts == split_whitespace(line_)
        n == Len(parts)
        dump == numeric_column(parts, 5, "dump value is not a number")
        pass == numeric_column(parts, 6, "pass value is not a number")
        src == decode_path(parts[1])
        source == IF src.ok /\ HasPrefix(src.val, DiskByPrefix)
                  THEN fetch_from_disk_by_path(src.val, lookup)
                  ELSE src
        dest == decode_path(parts[2])
    IN  IF n < 1 THEN Err("missing source")
        ELSE IF n < 2 THEN Err("missing dest")
        ELSE IF n < 3 THEN Err("missing type")
        ELSE IF n < 4 THEN Err("missing options")
        ELSE IF ~dump.ok THEN dump
        ELSE IF ~pass.ok THEN pass
        ELSE IF ~source.ok THEN source
        ELSE IF ~dest.ok THEN dest
        ELSE Ok([source |-> source.val,
                 dest |-> dest.val,
                 fstype |-> parts[3],
                 options |-> split_comma(parts[4]),
                 dump |-> dump.val,
                 pass |-> pass.val])

\* "defaults"
Defaults == <<100, 101, 102, 97, 117, 108, 116, 115>>

\* impl Display for MountInfo: the fields are written as they are stored,
\* separated by single spaces; nothing is escaped.
MountInfo_fmt(m) ==
    m.source \o <<Space>> \o m.dest \o <<Space>> \o m.fstype \o <<Space>>
      \o (IF m.options = <<>> THEN Defaults ELSE join_comma(m.options))
      \o <<Space>> \o IntToBytes(m.dump) \o <<Space>> \o IntToBytes(m.pass)

(***************************************************************************)
(* SwapInfo: parsing of one line (FromStr).                                *)
(***************************************************************************)

\* The digit loop of usize::from_str and isize::from_str.  The samples of
\* this model stay far below 64 bits, so the overflow checks never decide.
RECURSIVE accumulate_size(_, _, _)
accumulate_size(ds, acc, sign) ==
    IF ds = <<>> THEN Ok(acc)
    ELSE IF ~IsDigit(Head(ds)) THEN Err("InvalidDigit")
    ELSE accumulate_size(Tail(ds), acc * 10 + sign * (Head(ds) - Zero), sign)

\* A parser of sizes that accepts a sign as the parser of priorities does.
parse_usize_signed(s) ==
    LET signed == s # <<>> /\ Head(s) \in {Plus, Minus}
        ds == IF signed THEN Tail(s) ELSE s
    IN  IF ds = <<>> THEN Err("Empty")
        ELSE accumulate_size(ds, 0, IF signed /\ Head(s) = Minus THEN 0 - 1 ELSE 1)

\* str::parse::<usize>: an optional '+', then digits; a '-' is no digit.
parse_usize(s) ==
    LET ds == IF s # <<>> /\ Head(s) = Plus THEN Tail(s) ELSE s
    IN  IF ds = <<>> THEN Err("Empty") ELSE accumulate_size(ds, 0, 1)

\* str::parse::<isize>: an optional sign, then digits.
parse_isize(s) ==
    LET signed == s # <<>> /\ Head(s) \in {Plus, Minus}
        ds == IF signed THEN Tail(s) ELSE s
    IN  IF ds = <<>> THEN Err("Empty")
        ELSE accumulate_size(ds, 0, IF signed /\ Head(s) = Minus THEN 0 - 1 ELSE 1)

\* The macro next_value!: the next column, decoded, or `missing`.
next_value(parts, k, missing) ==
    IF Len(parts) < k THEN Err(missing) ELSE SwapInfo_parse_value(parts[k])

\* The local fn parse::<F>, applied to a decoded column v with F's parser
\* result n for the same bytes.
swap_number(v, n) ==
    IF ~v.ok THEN v
    ELSE IF ~IsUtf8From(v.val, 1) THEN Err("/proc/swaps contains non-UTF8 entry")
    ELSE IF ~n.ok THEN Err("/proc/swaps contains invalid data")
    ELSE n

\* impl FromStr for SwapInfo: the fields are evaluated in the order written.
SwapInfo_from_str(line_) ==
    LET parts == split_whitespace(line_)
        source == next_value(parts, 1, "Missing source")
        kind == next_value(parts, 2, "Missing kind")
        sizeV == next_value(parts, 3, "Missing size")
        usedV == next_value(parts, 4, "Missing used")
        prioV == next_value(parts, 5, "Missing priority")
        size == swap_number(sizeV, IF sizeV.ok THEN parse_usize(sizeV.val) ELSE sizeV)
        used == swap_number(usedV, IF usedV.ok THEN parse_usize(usedV.val) ELSE usedV)
        priority == swap_number(prioV, IF prioV.ok THEN parse_isize(prioV.val) ELSE prioV)
    IN  IF ~source.ok THEN source
        ELSE IF ~kind.ok THEN kind
        ELSE IF ~size.ok THEN size
        ELSE IF ~used.ok THEN used
        ELSE IF ~priority.ok THEN priority
        ELSE Ok([source |-> source.val,
                 kind |-> kind.val,
                 size |-> size.val,
                 used |-> used.val,
                 priority |-> priority.val])

(***************************************************************************)
(* The row iterators.  The reader is the sequence of lines it has yet to   *)
(* deliver, each without its line terminator.  BufRead::read_line fails    *)
(* on a line that is not UTF-8, after consuming it; other I/O errors are   *)
(* not modelled.                                                           *)
(***************************************************************************)
\* Option: None, or Some(x).
None == [end |-> TRUE]
Some(x) == [some |-> x]

\* self.file.read_line(&mut self.buffer): the count read (0 at the end of the
\* input), the buffer and the reader left.
read_line(rd) ==
    IF rd = <<>> THEN [res |-> Ok(0), buffer |-> <<>>, rest |-> rd]
    ELSE IF ~IsUtf8From(Head(rd), 1)
         THEN [res |-> Err("ReadError"), buffer |-> <<>>, rest |-> Tail(rd)]
         ELSE [res |-> Ok(Len(Head(rd)) + 1),
               buffer |-> Head(rd) \o <<NewLine>>,
               rest |-> Tail(rd)]

\* The lookup outcome used for lines met by the iterators and the tab.
NoDevice == "NoDevice"

\* An iterator that ends the sequence at the first line that fails to parse.
RECURSIVE MountIter_next_fused(_)
MountIter_next_fused(rd) ==
    LET r == read_line(rd)
        l == trim_start(r.buffer)
        item == MountInfo_from_str(l, NoDevice)
    IN  IF ~r.res.ok THEN [item |-> Some(r.res), rest |-> r.rest]
        ELSE IF r.res.val = 0 THEN [item |-> None, rest |-> r.rest]
        ELSE IF ~(l = <<>> \/ Head(l) = Hash)
             THEN [item |-> Some(item), rest |-> IF item.ok THEN r.rest ELSE <<>>]
             ELSE MountIter_next_fused(r.rest)

\* An iterator that tests the line as read, without trimming it.
RECURSIVE MountIter_next_untrimmed(_)
MountIter_next_untrimmed(rd) ==
    LET r == read_line(rd)
        l == r.buffer
    IN  IF ~r.res.ok THEN [item |-> Some(r.res), rest |-> r.rest]
        ELSE IF r.res.val = 0 THEN [item |-> None, rest |-> r.rest]
        ELSE IF ~(l = <<>> \/ Head(l) = Hash)
             THEN [item |-> Some(MountInfo_from_str(l, NoDevice)), rest |-> r.rest]
             ELSE MountIter_next_untrimmed(r.rest)

\* impl Iterator for MountIter: next(), the whole loop.
RECURSIVE MountIter_next(_)
MountIter_next(rd) ==
    LET r == read_line(rd)
        l == trim_start(r.buffer)
    IN  IF ~r.res.ok THEN [item |-> Some(r.res), rest |-> r.rest]
        ELSE IF r.res.val = 0 THEN [item |-> None, rest |-> r.rest]
        ELSE IF ~(l = <<>> \/ Head(l) = Hash)
             THEN [item |-> Some(MountInfo_from_str(l, NoDevice)), rest |-> r.rest]
             ELSE MountIter_next(r.rest)

\* A constructor that leaves the first line in the reader.
SwapIter_new_from_reader_keeping(rd) == Ok(rd)

\* SwapIter::new_from_reader: the first line is read and dropped; a failure
\* to read it fails the construction.
SwapIter_new_from_reader(rd) ==
    LET r == read_line(rd)
    IN  IF r.res.ok THEN Ok(r.rest) ELSE r.res

\* impl Iterator for SwapIter: next().
SwapIter_next(rd) ==
    LET r == read_line(rd)
    IN  IF ~r.res.ok THEN [item |-> Some(r.res), rest |-> r.rest]
        ELSE IF r.res.val = 0 THEN [item |-> None, rest |-> r.rest]
        ELSE [item |-> Some(SwapInfo_from_str(r.buffer)), rest |-> r.rest]

\* A collector that leaves out the lines that fail and goes on.
RECURSIVE collect_mounts_skipping(_, _)
collect_mounts_skipping(rd, acc) ==
    LET r == MountIter_next(rd)
    IN  IF r.item = None THEN Ok(acc)
        ELSE IF ~r.item.some.ok THEN collect_mounts_skipping(r.rest, acc)
        ELSE collect_mounts_skipping(r.rest, Append(acc, r.item.some.val))

\* Iterator::collect::<io::Result<Vec<_>>>() over a MountIter: the records in
\* order, or the first error.
RECURSIVE collect_mounts(_, _)
collect_mounts(rd, acc) ==
    LET r == MountIter_next(rd)
    IN  IF r.item = None THEN Ok(acc)
        ELSE IF ~r.item.some.ok THEN r.item.some
        ELSE collect_mounts(r.rest, Append(acc, r.item.some.val))

\* MountList::new_from_reader
MountList_new_from_reader(rd) == collect_mounts(rd, <<>>)

\* Iterator::collect::<io::Result<Vec<_>>>() over a SwapIter.
RECURSIVE collect_swaps(_, _)
collect_swaps(rd, acc) ==
    LET r == SwapIter_next(rd)
    IN  IF r.item = None THEN Ok(acc)
        ELSE IF ~r.item.some.ok THEN r.item.some
        ELSE collect_swaps(r.rest, Append(acc, r.item.some.val))

\* SwapList::new_from_reader: `SwapIter::new_from_reader(reader)?`, collected.
SwapList_new_from_reader(rd) ==
    LET it == SwapIter_new_from_reader(rd)
    IN  IF it.ok THEN collect_swaps(it.val, <<>>) ELSE it

(***************************************************************************)
(* Scenario "iter": an iterator is built over a reader and next() is       *)
(* called until the end of the input has been reported twice; or the       *)
(* reader is handed to new_from_reader of the list.                        *)
(***************************************************************************)
Sample(bytes, asMount, asSwap) == [bytes |-> bytes, mount |-> asMount, swap |-> asSwap]

\* What each sample line is to either iterator.
SampleLines ==
    { Sample(<<97, 32, 47, 109, 32, 116, 32, 114, 119, 32, 48, 32, 48>>,
             "record", "error"),                       \* a /m t rw 0 0
      Sample(<<47, 115, 9, 112, 32, 56, 32, 48, 32, 45, 50>>,
             "record", "record"),                      \* /s<TAB>p 8 0 -2
      Sample(<<32, 47, 115, 9, 112, 32, 56, 32, 48, 32, 45, 50>>,
             "record", "record"),                      \* <SP>/s<TAB>p 8 0 -2
      Sample(<<97, 32, 47, 109, 32, 116>>,
             "error", "error"),                        \* a /m t
      Sample(<<32, 35, 32, 99>>, "skip", "error"),     \* <SP># c
      Sample(<<>>, "skip", "error"),                   \* (blank)
      Sample(<<255>>, "readerror", "readerror") }      \* a byte that is not UTF-8

Bytes(samples) == [k \in 1 .. Len(samples) |-> samples[k].bytes]

InitIter ==
    /\ pc = "new"
    /\ input \in [kind : {"mount", "swap"}, lines : SeqsUpTo(SampleLines, MaxLines)]
    /\ reader = Idle
    /\ items = <<>>
    /\ collected = Idle
    /\ ValueIdle /\ InfoIdle /\ ListIdle /\ TabIdle /\ WatchIdle

\* MountIter::new_from_reader
MountIterNew ==
    /\ pc = "new"
    /\ input.kind = "mount"
    /\ reader' = Bytes(input.lines)
    /\ pc' = "iter"
    /\ UNCHANGED <<input, items, collected>>
    /\ UNCHANGED <<valueVars, infoVars, listVars, tabVars, watchVars>>

SwapIterNew ==
    /\ pc = "new"
    /\ input.kind = "swap"
    /\ LET it == SwapIter_new_from_reader(Bytes(input.lines))
       IN  IF it.ok
           THEN reader' = it.val /\ pc' = "iter"
           ELSE reader' = reader /\ pc' = "failed"
    /\ UNCHANGED <<input, items, collected>>
    /\ UNCHANGED <<valueVars, infoVars, listVars, tabVars, watchVars>>

MoreCalls == Len(items) <= Len(input.lines) + 1

MountIterNext ==
    /\ pc = "iter"
    /\ input.kind = "mount"
    /\ MoreCalls
    /\ LET r == MountIter_next(reader)
       IN  items' = Append(items, r.item) /\ reader' = r.rest
    /\ UNCHANGED <<pc, input, collected>>
    /\ UNCHANGED <<valueVars, infoVars, listVars, tabVars, watchVars>>

SwapIterNext ==
    /\ pc = "iter"
    /\ input.kind = "swap"
    /\ MoreCalls
    /\ LET r == SwapIter_next(reader)
       IN  items' = Append(items, r.item) /\ reader' = r.rest
    /\ UNCHANGED <<pc, input, collected>>
    /\ UNCHANGED <<valueVars, infoVars, listVars, tabVars, watchVars>>

\* MountList::new_from_reader on the input.
MountListNew ==
    /\ pc = "new"
    /\ input.kind = "mount"
    /\ collected' = MountList_new_from_reader(Bytes(input.lines))
    /\ pc' = "built"
    /\ UNCHANGED <<input, reader, items>>
    /\ UNCHANGED <<valueVars, infoVars, listVars, tabVars, watchVars>>

\* SwapList::new_from_reader on the input.
SwapListNew ==
    /\ pc = "new"
    /\ input.kind = "swap"
    /\ collected' = SwapList_new_from_reader(Bytes(input.lines))
    /\ pc' = "built"
    /\ UNCHANGED <<input, reader, items>>
    /\ UNCHANGED <<valueVars, infoVars, listVars, tabVars, watchVars>>

NextIter ==
    \/ MountIterNew \/ SwapIterNew \/ MountIterNext \/ SwapIterNext
    \/ MountListNew \/ SwapListNew

SpecIter == InitIter /\ [][NextIter]_vars

(***************************************************************************)
(* C5: a read error ends the sequence.                                     *)
(***************************************************************************)
IsReadError(item) == item # None /\ ~item.some.ok /\ item.some.err = "ReadError"

\* C5: once next() has returned a read error, every later call returns the
\* end of the sequence and consumes nothing more.
C5_ReadErrorIsFinal ==
    pc = "iter" =>
        \A i \in 1 .. Len(items) :
            IsReadError(items[i]) => \A j \in (i + 1) .. Len(items) : items[j] = None

(***************************************************************************)
(* C6: parse errors do not stop the row iterators.                         *)
(***************************************************************************)

\* The lines the iterator has consumed so far (the swap header excluded).
Consumed ==
    LET first == IF input.kind = "swap" THEN 2 ELSE 1
    IN  SubSeq(input.lines, first, Len(input.lines) - Len(reader))

\* What a sample line is to the iterator under test.
Role(sample) == IF input.kind = "swap" THEN sample.swap ELSE sample.mount

RECURSIVE Unskipped(_)
Unskipped(samples) ==
    IF samples = <<>> THEN <<>>
    ELSE IF Role(Head(samples)) = "skip" THEN Unskipped(Tail(samples))
    ELSE <<Head(samples)>> \o Unskipped(Tail(samples))

RECURSIVE Yielded(_)
Yielded(its) ==
    IF its = <<>> THEN <<>>
    ELSE IF Head(its) = None THEN Yielded(Tail(its))
    ELSE <<Head(its).some>> \o Yielded(Tail(its))

Class(item) ==
    IF item.ok THEN "record" ELSE IF item.err = "ReadError" THEN "readerror" ELSE "error"

\* The result of parsing one sample line on its own.
Alone(sample) ==
    IF input.kind = "swap"
    THEN SwapInfo_from_str(sample.bytes)
    ELSE MountInfo_from_str(sample.bytes, NoDevice)

\* C6: the items returned so far are, in file order, exactly one item for
\* each consumed line that is not skipped: a record for a well-formed line,
\* one error for a malformed one, and a line after a malformed line yields
\* what it yields on its own; the end of the sequence is reported only when
\* the input is exhausted.
C6_ParseErrorsDoNotStop ==
    pc = "iter" =>
        LET lines == Unskipped(Consumed)
            ys == Yielded(items)
        IN  /\ Len(ys) = Len(lines)
            /\ \A k \in 1 .. Len(ys) :
                  /\ Class(ys[k]) = Role(lines[k])
                  /\ Role(lines[k]) # "readerror" => ys[k] = Alone(lines[k])
            /\ (\E k \in 1 .. Len(items) : items[k] = None) => reader = <<>>

\* A malformed line yielded its error and a later line yielded its record.
C6_Witness ==
    /\ pc = "iter"
    /\ \E i, j \in 1 .. Len(items) :
          /\ i < j
          /\ items[i] # None /\ items[j] # None
          /\ Class(items[i].some) = "error"
          /\ Class(items[j].some) = "record"

(***************************************************************************)
(* C12: which lines MountIter passes over.                                 *)
(***************************************************************************)

\* Every line of the input can be read (is UTF-8 text).
TextOnly(samples) == \A k \in 1 .. Len(samples) : Role(samples[k]) # "readerror"

\* The line, left-trimmed, is empty or starts with '#'.
IsIgnored(bytes) ==
    LET solid == {k \in 1 .. Len(bytes) : bytes[k] \notin Whitespace}
    IN  solid = {} \/ bytes[CHOOSE k \in solid : \A j \in solid : k <= j] = Hash

RECURSIVE Kept(_)
Kept(samples) ==
    IF samples = <<>> THEN <<>>
    ELSE IF IsIgnored(Head(samples).bytes) THEN Kept(Tail(samples))
    ELSE <<Head(samples)>> \o Kept(Tail(samples))

DataLines ==
    IF input.kind = "swap"
    THEN (IF input.lines = <<>> THEN <<>> ELSE Tail(input.lines))
    ELSE Unskipped(input.lines)

\* The item a line gives on its own.
ItemOf(sample) ==
    IF Role(sample) = "readerror" THEN Err("ReadError") ELSE Alone(sample)

\* The swap header cannot be read.
HeaderFails ==
    input.kind = "swap" /\ input.lines # <<>> /\ Role(input.lines[1]) = "readerror"

\* C15: new_from_reader of MountList and SwapList fails with the error of
\* the first line that fails, in file order, and otherwise holds exactly
\* the records of the lines in file order, duplicates included.
C15_AllOrNothing ==
    pc = "built" =>
        LET ls == DataLines
            bad == {k \in 1 .. Len(ls) : Role(ls[k]) # "record"}
        IN  IF HeaderFails THEN collected = Err("ReadError")
            ELSE IF bad = {}
            THEN collected = Ok([k \in 1 .. Len(ls) |-> Alone(ls[k]).val])
            ELSE collected = ItemOf(ls[CHOOSE k \in bad : \A j \in bad : k <= j])

\* A record line, a malformed line and another record line were handed to
\* MountList::new_from_reader, which failed.
C15_Witness ==
    /\ pc = "built"
    /\ input.kind = "mount"
    /\ Len(input.lines) = 3
    /\ Role(input.lines[1]) = "record"
    /\ Role(input.lines[2]) = "error"
    /\ Role(input.lines[3]) = "record"
    /\ ~collected.ok

(***************************************************************************)
(* MountList: the lookups.  Option<&MountInfo> is None or the record.      *)
(***************************************************************************)

\* Iterator::find on self.0.iter(): the first position whose record
\* satisfies the test, 0 when there is none.  `field` is "source" or "dest".
find(list, field, path) ==
    IF \E k \in 1 .. Len(list) : list[k][field] = path
    THEN CHOOSE k \in 1 .. Len(list) :
            /\ list[k][field] = path
            /\ \A j \in 1 .. (k - 1) : list[j][field] # path
    ELSE 0

\* MountList::get_mount_by_dest
get_mount_by_dest(list, path) ==
    LET k == find(list, "dest", path) IN IF k = 0 THEN None ELSE Some(list[k])

\* MountList::get_mount_by_source
get_mount_by_source(list, path) ==
    LET k == find(list, "source", path) IN IF k = 0 THEN None ELSE Some(list[k])

\* MountList::source_mounted_at
source_mounted_at(list, source, path) ==
    LET m == get_mount_by_source(list, source)
    IN  IF m = None THEN FALSE ELSE m.some.dest = path

\* A search that matches whole path segments only.
starts_with_segments(list, path, field) ==
    SelectSeq(list, LAMBDA m :
        /\ Len(m[field]) >= Len(path)
        /\ SubSeq(m[field], 1, Len(path)) = path
        /\ (Len(m[field]) = Len(path) \/ m[field][Len(path) + 1] = 47))

\* MountList::starts_with: the filter over self.0.iter(); `field` stands for
\* the closure that picks the source or the dest.
starts_with(list, path, field) ==
    SelectSeq(list, LAMBDA m :
        Len(m[field]) >= Len(path) /\ SubSeq(m[field], 1, Len(path)) = path)

\* MountList::source_starts_with
source_starts_with(list, path) == starts_with(list, path, "source")

\* MountList::destination_starts_with
destination_starts_with(list, path) == starts_with(list, path, "dest")

(***************************************************************************)
(* Scenario "list": a lookup by source and dest, or a prefix search, is    *)
(* made on a mount list.                                                   *)
(***************************************************************************)
SamplePaths ==
    [source : {<<115>>, <<116>>},                          \* s, t
     dest : {<<47>>, <<47, 97>>, <<47, 97, 98>>}]          \* /, /a, /ab

MountOf(p) ==
    [source |-> p.source, dest |-> p.dest, fstype |-> <<116>>,
     options |-> <<(<<114, 119>>)>>, dump |-> 0, pass |-> 0]

SampleMounts == {MountOf(p) : p \in SamplePaths}

InitList ==
    /\ pc = "list"
    /\ mounts \in SeqsUpTo(SampleMounts, MaxMounts)
    /\ query = Idle
    /\ answer = Idle
    /\ ValueIdle /\ InfoIdle /\ IterIdle /\ TabIdle /\ WatchIdle

Lookup ==
    /\ pc = "list"
    /\ \E q \in SamplePaths :
         /\ query' = q
         /\ answer' = [by_dest |-> get_mount_by_dest(mounts, q.dest),
                       by_source |-> get_mount_by_source(mounts, q.source),
                       mounted_at |-> source_mounted_at(mounts, q.source, q.dest)]
    /\ pc' = "asked"
    /\ UNCHANGED mounts
    /\ UNCHANGED <<valueVars, infoVars, iterVars, tabVars, watchVars>>

\* The paths searched for: the empty path, /, /a, /ab, /abc, s, a.
SamplePrefixes ==
    {<<>>, <<47>>, <<47, 97>>, <<47, 97, 98>>, <<47, 97, 98, 99>>, <<115>>, <<97>>}

PrefixSearch ==
    /\ pc = "list"
    /\ \E q \in SamplePrefixes :
         /\ query' = q
         /\ answer' = [sources |-> source_starts_with(mounts, q),
                       dests |-> destination_starts_with(mounts, q)]
    /\ pc' = "searched"
    /\ UNCHANGED mounts
    /\ UNCHANGED <<valueVars, infoVars, iterVars, tabVars, watchVars>>

NextList == Lookup \/ PrefixSearch

SpecList == InitList /\ [][NextList]_vars

(***************************************************************************)
(* C7: lookup by destination and source_mounted_at.                        *)
(***************************************************************************)
DistinctDests(list) ==
    \A i, j \in 1 .. Len(list) : i # j => list[i].dest # list[j].dest

\* C7: in a non-empty list of pairwise distinct destinations, for every
\* record r of the list, get_mount_by_dest(r.dest) is r and
\* source_mounted_at(r.source, r.dest) is true.
C7_LookupAgrees ==
    (pc = "asked" /\ mounts # <<>> /\ DistinctDests(mounts)) =>
        \A k \in 1 .. Len(mounts) :
            (mounts[k].source = query.source /\ mounts[k].dest = query.dest) =>
                /\ answer.by_dest = Some(mounts[k])
                /\ answer.mounted_at = TRUE

(***************************************************************************)
(* C16: prefix search.                                                     *)
(***************************************************************************)

\* The bytes of f begin with the bytes of p.
Begins(f, p) == \E n \in 0 .. Len(f) : SubSeq(f, 1, n) = p

\* res holds, in the order of the list, all and only the records of the
\* list whose field begins with p.
AllAndOnly(res, list, field, p) ==
    LET idx == {k \in 1 .. Len(list) : Begins(list[k][field], p)}
    IN  /\ Len(res) = Cardinality(idx)
        /\ \A i \in 1 .. Len(res) :
              res[i] = list[CHOOSE k \in idx : Cardinality({j \in idx : j <= k}) = i]

\* C16: source_starts_with(p) and destination_starts_with(p) yield, in file
\* order, all and only the records whose source, respectively dest, begins
\* with the bytes of p; a query longer than the field never matches.
C16_PrefixSearch ==
    pc = "searched" =>
        /\ AllAndOnly(answer.sources, mounts, "source", query)
        /\ AllAndOnly(answer.dests, mounts, "dest", query)
        /\ \A k \in 1 .. Len(answer.dests) : Len(answer.dests[k].dest) >= Len(query)

\* /a was searched for in a list of /, /ab and /a: /ab and /a were found,
\* in that order.
C16_Witness ==
    /\ pc = "searched"
    /\ query = <<47, 97>>
    /\ Len(mounts) = 3
    /\ mounts[1].dest = <<47>>
    /\ mounts[2].dest = <<47, 97, 98>>
    /\ mounts[3].dest = <<47, 97>>
    /\ answer.dests = <<mounts[2], mounts[3]>>

(***************************************************************************)
(* MountTab: the editable table.                                           *)
(***************************************************************************)
Comment(c) == [kind |-> "Comment", comment |-> c]
Empty == [kind |-> "Empty"]
Mount(m) == [kind |-> "Mount", info |-> m]

\* str::lines: the pieces between line feeds, without a last empty piece.
\* (No sample holds a carriage return, which lines() would strip.)
RECURSIVE str_lines(_)
str_lines(s) ==
    IF s = <<>> THEN <<>>
    ELSE LET l == TakeField(s, {NewLine})
         IN  <<l>> \o str_lines(SubSeq(s, Len(l) + 2, Len(s)))

\* The loop of MountTab::from_str over the lines left, with the entries
\* pushed so far; `?` returns the first error.
RECURSIVE tab_entries(_, _)
tab_entries(lines, entries) ==
    IF lines = <<>> THEN Ok(entries)
    ELSE LET l == trim_start(Head(lines))
             info == MountInfo_from_str(l, NoDevice)
         IN  IF l = <<>> THEN tab_entries(Tail(lines), Append(entries, Empty))
             ELSE IF Head(l) = Hash
                  THEN tab_entries(Tail(lines), Append(entries, Comment(l)))
             ELSE IF ~info.ok THEN info
             ELSE tab_entries(Tail(lines), Append(entries, Mount(info.val)))

\* impl FromStr for MountTab
MountTab_from_str(s) == tab_entries(str_lines(s), <<>>)

\* impl Display for AbstractMountElement
AbstractMountElement_fmt(e) ==
    CASE e.kind = "Comment" -> e.comment
      [] e.kind = "Empty" -> <<>>
      [] OTHER -> MountInfo_fmt(e.info)

\* impl Display for MountTab: writeln! of every entry.
RECURSIVE MountTab_fmt(_)
MountTab_fmt(entries) ==
    IF entries = <<>> THEN <<>>
    ELSE AbstractMountElement_fmt(Head(entries)) \o <<NewLine>>
           \o MountTab_fmt(Tail(entries))

(***************************************************************************)
(* Scenario "tab": a text is parsed into a MountTab, which is serialized.  *)
(***************************************************************************)
TabLines ==
    { <<97, 32, 47, 109, 32, 116, 32, 114, 119>>,                  \* a /m t rw
      <<35, 32, 99>>,                                              \* # c
      <<32, 35, 32, 99>>,                                          \* <SP># c
      <<>>,                                                        \* (blank)
      <<32>>,                                                      \* <SP>
      <<97, 92, 48, 49, 50, 98, 32, 47, 109, 32, 116, 32, 114, 119>>,  \* a\012b /m t rw
      <<97, 32, 47, 109>> }                                        \* a /m

RECURSIVE Terminated(_)
Terminated(lines) ==
    IF lines = <<>> THEN <<>> ELSE Head(lines) \o <<NewLine>> \o Terminated(Tail(lines))

InitTab ==
    /\ pc = "text"
    /\ \E lines \in SeqsUpTo(TabLines, MaxTabLines) :
         \E chop \in BOOLEAN :
           /\ chop => (lines # <<>> /\ lines[Len(lines)] # <<>>)
           /\ tabText = LET t == Terminated(lines)
                        IN  IF chop THEN SubSeq(t, 1, Len(t) - 1) ELSE t
    /\ tab = Idle
    /\ tabOut = Idle
    /\ ValueIdle /\ InfoIdle /\ IterIdle /\ ListIdle /\ WatchIdle

ParseTab ==
    /\ pc = "text"
    /\ tab' = MountTab_from_str(tabText)
    /\ pc' = "tab"
    /\ UNCHANGED <<tabText, tabOut>>
    /\ UNCHANGED <<valueVars, infoVars, iterVars, listVars, watchVars>>

DisplayTab ==
    /\ pc = "tab"
    /\ tab.ok
    /\ tabOut' = MountTab_fmt(tab.val)
    /\ pc' = "written"
    /\ UNCHANGED <<tabText, tab>>
    /\ UNCHANGED <<valueVars, infoVars, iterVars, listVars, watchVars>>

NextTab == ParseTab \/ DisplayTab

SpecTab == InitTab /\ [][NextTab]_vars

(***************************************************************************)
(* C9: the editable table keeps the lines that are no records.             *)
(***************************************************************************)
IsBlankLine(l) == \A k \in 1 .. Len(l) : IsWhitespace(l[k])

IsCommentLine(l) ==
    \E k \in 1 .. Len(l) :
        /\ l[k] = Hash
        /\ \A j \in 1 .. (k - 1) : IsWhitespace(l[j])

\* C9: the table has one element per line of the text, and the serialized
\* table has every comment line and every blank line of the text, verbatim,
\* at the same line position.
C9_NonRecordLinesKept ==
    pc = "written" =>
        LET lines == str_lines(tabText)
            out == str_lines(tabOut)
        IN  /\ Len(tab.val) = Len(lines)
            /\ \A k \in 1 .. Len(lines) :
                  (IsBlankLine(lines[k]) \/ IsCommentLine(lines[k])) =>
                      /\ k <= Len(out)
                      /\ out[k] = lines[k]

(***************************************************************************)
(* The change-watching cache (lib.rs), for the mount table.  A file        *)
(* content is a sequence of lines.                                         *)
(***************************************************************************)

\* A constructor that keeps the records read before the first failing line.
RECURSIVE collect_parsed(_, _)
collect_parsed(rd, acc) ==
    LET r == MountIter_next(rd)
    IN  IF r.item = None \/ ~r.item.some.ok THEN Ok(acc)
        ELSE collect_parsed(r.rest, Append(acc, r.item.some.val))

MountList_new_partial(content, opens) ==
    IF opens THEN collect_parsed(content, <<>>) ELSE Err("NotOpened")

\* MountList::new on a file of content `content`; `opens` tells whether
\* File::open succeeds.
MountList_new(content, opens) ==
    IF opens THEN MountList_new_from_reader(content) ELSE Err("NotOpened")

\* DefaultHasher stands for a 64-bit SipHash; here a hasher state is a number
\* and writing a byte mixes it in.  The sample contents do not collide.
RECURSIVE hasher_write(_, _)
hasher_write(h, bytes) ==
    IF bytes = <<>> THEN h
    ELSE hasher_write((h * 31 + Head(bytes) + 1) % 65521, Tail(bytes))

\* `buffer[..read].hash(hasher)`: the length of the slice, then its bytes.
hash_slice(h, bytes) == hasher_write(hasher_write(h, <<Len(bytes)>>), bytes)

\* get_file_hash on a file of content `content`.  `how` is what the file
\* system does: "unopened", the open fails; "failed", the first read fails,
\* which ends the `while let Ok(read)` loop with nothing hashed; "complete",
\* the content (shorter than the buffer) is read in one piece.
get_file_hash(content, how) ==
    CASE how = "unopened" -> Err("unable to open file")
      [] how = "failed" -> Ok(0)
      [] OTHER -> Ok(hash_slice(0, Terminated(content)))

HashOutcomes == {"unopened", "failed", "complete"}

\* What went wrong in a get_file_hash that went as `how` says.
HashFault(how) ==
    CASE how = "unopened" -> {"open"}
      [] how = "failed" -> {"read"}
      [] OTHER -> {}

\* RwLock::write returns once no guard is held.
write_ignoring_readers == ~writer

write_available == ~writer /\ readers = 0

\* RwLock::read returns once no write guard is held.
read_available == ~writer

(***************************************************************************)
(* Scenario "watch": MOUNTS is touched for the first time, the watcher     *)
(* thread runs, readers come and go, and the file changes at any time.     *)
(***************************************************************************)
FileContents ==
    { <<(<<97, 32, 47, 109, 32, 116, 32, 114, 119, 32, 48, 32, 48>>)>>,   \* a /m t rw 0 0
      <<(<<97, 32, 47, 109, 32, 116, 32, 114, 119, 32, 48, 32, 48>>),
        (<<47, 115, 9, 112, 32, 56, 32, 48, 32, 45, 50>>)>>,   \* ... and /s<TAB>p 8 0 -2
      <<(<<35, 32, 99>>),
        (<<97, 32, 47, 109, 32, 116, 32, 114, 119, 32, 48, 32, 48>>)>>,   \* # c, a /m t rw 0 0
      <<(<<97, 32, 47, 109, 32, 116>>)>> }                     \* a /m t

InitWatch ==
    /\ pc = "watch"
    /\ file \in FileContents
    /\ snapshot = <<>>
    /\ modified = 0
    /\ wpc = "uninit"
    /\ lastHash = [how |-> "none", res |-> Err("none")]
    /\ new_swaps = <<>>
    /\ readers = 0
    /\ writer = FALSE
    /\ replacing = FALSE
    /\ ticks = 0
    /\ faults = {}
    /\ ValueIdle /\ InfoIdle /\ IterIdle /\ ListIdle /\ TabIdle

Others == <<pc, valueVars, infoVars, iterVars, listVars, tabVars>>

\* Another process rewrites the watched file.
ChangeFile ==
    /\ wpc \notin {"uninit", "init_panicked"}
    /\ \E c \in FileContents \ {file} : file' = c
    /\ ticks' = 0
    /\ UNCHANGED <<snapshot, modified, wpc, lastHash, new_swaps, readers, writer, replacing, faults>>
    /\ UNCHANGED Others

\* lazy_static, first access: MountList::new().unwrap(), then watch_and_set
\* spawns the thread.
LazyInit ==
    /\ wpc = "uninit"
    /\ \E opens \in BOOLEAN :
         LET l == MountList_new(file, opens)
         IN  IF l.ok
             THEN snapshot' = l.val /\ wpc' = "spawned"
             ELSE snapshot' = snapshot /\ wpc' = "init_panicked"
    /\ UNCHANGED <<file, modified, lastHash, new_swaps, readers, writer, replacing, ticks, faults>>
    /\ UNCHANGED Others

\* The thread's first statement: get_file_hash(..).expect(..)
FirstHash ==
    /\ wpc = "spawned"
    /\ \E how \in HashOutcomes :
         LET h == get_file_hash(file, how)
         IN  /\ lastHash' = [how |-> how, res |-> h]
             /\ IF h.ok
                THEN modified' = h.val /\ wpc' = "sleep"
                ELSE modified' = modified /\ wpc' = "dead"
             /\ faults' = faults \cup HashFault(how)
    /\ UNCHANGED <<file, snapshot, new_swaps, readers, writer, replacing, ticks>>
    /\ UNCHANGED Others

\* thread::sleep returns and modify_if_changed is entered.
Wake ==
    /\ wpc = "sleep"
    /\ wpc' = "hash"
    /\ UNCHANGED <<file, snapshot, modified, lastHash, new_swaps, readers, writer,
                   replacing, ticks, faults>>
    /\ UNCHANGED Others

\* modify_if_changed: get_file_hash, the comparison and `*modified = ..`.
TickHash ==
    /\ wpc = "hash"
    /\ \E how \in HashOutcomes :
         LET h == get_file_hash(file, how)
         IN  /\ lastHash' = [how |-> how, res |-> h]
             /\ IF h.ok /\ h.val # modified
                THEN modified' = h.val /\ wpc' = "lock"
                ELSE modified' = modified /\ wpc' = "sleep"
             /\ ticks' = IF how = "complete" /\ ticks < MaxTicks THEN ticks + 1 ELSE ticks
             /\ faults' = faults \cup HashFault(how)
    /\ UNCHANGED <<file, snapshot, new_swaps, readers, writer, replacing>>
    /\ UNCHANGED Others

\* modify_if_changed: swaps.write() returns the guard.
WriteLock ==
    /\ wpc = "lock"
    /\ write_available
    /\ writer' = TRUE
    /\ wpc' = "parse"
    /\ UNCHANGED <<file, snapshot, modified, lastHash, new_swaps, readers, replacing, ticks, faults>>
    /\ UNCHANGED Others

\* modify_if_changed: create_new(), the closure `|| MountList::new().ok()`,
\* under the write guard; on None (the list could not be built) the guard is
\* dropped and the tick is over.
CreateNew ==
    /\ wpc = "parse"
    /\ \E opens \in BOOLEAN :
         LET l == MountList_new(file, opens)
         IN  IF ~l.ok
             THEN /\ new_swaps' = new_swaps /\ writer' = FALSE /\ wpc' = "sleep"
                  /\ faults' = faults \cup {"parse"}
             ELSE /\ new_swaps' = l.val /\ writer' = writer /\ wpc' = "store"
                  /\ faults' = faults
    /\ UNCHANGED <<file, snapshot, modified, lastHash, readers, replacing, ticks>>
    /\ UNCHANGED Others

\* modify_if_changed: `**swaps = new_swaps` starts: the old collection is
\* dropped and the new one is moved in its place.
StoreBegin ==
    /\ wpc = "store"
    /\ ~replacing
    /\ replacing' = TRUE
    /\ UNCHANGED <<file, snapshot, modified, wpc, lastHash, new_swaps, readers, writer, ticks, faults>>
    /\ UNCHANGED Others

\* modify_if_changed: the replacement is complete.
StoreEnd ==
    /\ wpc = "store"
    /\ replacing
    /\ snapshot' = new_swaps
    /\ replacing' = FALSE
    /\ wpc' = "unlock"
    /\ UNCHANGED <<file, modified, lastHash, new_swaps, readers, writer, ticks, faults>>
    /\ UNCHANGED Others

\* modify_if_changed: the write guard goes out of scope.
WriteUnlock ==
    /\ wpc = "unlock"
    /\ writer' = FALSE
    /\ wpc' = "sleep"
    /\ UNCHANGED <<file, snapshot, modified, lastHash, new_swaps, readers, replacing, ticks, faults>>
    /\ UNCHANGED Others

\* A consumer takes MOUNTS.read().
ReadLock ==
    /\ wpc \notin {"uninit", "init_panicked"}
    /\ read_available
    /\ readers < MaxReaders
    /\ readers' = readers + 1
    /\ UNCHANGED <<file, snapshot, modified, wpc, lastHash, new_swaps, writer, replacing, ticks, faults>>
    /\ UNCHANGED Others

\* A consumer drops its read guard.
ReadUnlock ==
    /\ readers > 0
    /\ readers' = readers - 1
    /\ UNCHANGED <<file, snapshot, modified, wpc, lastHash, new_swaps, writer, replacing, ticks, faults>>
    /\ UNCHANGED Others

NextWatch ==
    \/ ChangeFile \/ LazyInit \/ FirstHash \/ Wake \/ TickHash \/ WriteLock
    \/ CreateNew \/ StoreBegin \/ StoreEnd \/ WriteUnlock \/ ReadLock \/ ReadUnlock

SpecWatch == InitWatch /\ [][NextWatch]_vars

(***************************************************************************)
(* C1: freshness of the shared snapshot.                                   *)
(***************************************************************************)

\* C1: once two ticks have read the file for their hash after its latest
\* change and are over, the snapshot is a fresh parse of the file.
C1_FreshWithinTwoTicks ==
    (wpc = "sleep" /\ ticks >= 2 /\ MountList_new(file, TRUE).ok) =>
        snapshot = MountList_new(file, TRUE).val

(***************************************************************************)
(* C2: the snapshot is replaced atomically.                                *)
(***************************************************************************)

\* C2: the snapshot is replaced only under the write guard; while a read
\* guard is held no write guard is held, no replacement is in progress, and
\* the snapshot the reader sees does not change.
C2_AtomicRepublish ==
    /\ [](replacing => writer)
    /\ [](readers > 0 => (~writer /\ ~replacing))
    /\ [][(wpc # "uninit" /\ snapshot' # snapshot) =>
            (writer /\ readers = 0 /\ snapshot' = new_swaps)]_vars
    /\ [][(readers > 0 /\ readers' > 0) => snapshot' = snapshot]_vars

\* The watcher, holding the write guard, is replacing the snapshot by a
\* collection that differs from it.
C2_Witness ==
    /\ replacing
    /\ writer
    /\ new_swaps # snapshot

(***************************************************************************)
(* C10: a hash that cannot be computed counts as "no change".              *)
(***************************************************************************)

\* C10: a tick whose get_file_hash cannot open the file, or meets a failing
\* read, leaves the stored hash and the snapshot as they are and goes back to
\* sleep without a re-parse.
C10_HashFailureIsNoChange ==
    [][(wpc = "hash" /\ wpc' # "hash" /\ lastHash'.how # "complete") =>
          (modified' = modified /\ snapshot' = snapshot /\ wpc' = "sleep")]_vars

(***************************************************************************)
(* C11: a re-parse that fails keeps the old snapshot.                      *)
(***************************************************************************)

\* The sample content whose only line lacks the options column.
MalformedContent == <<(<<97, 32, 47, 109, 32, 116>>)>>

IsMountList(l) ==
    \A k \in 1 .. Len(l) :
        DOMAIN l[k] = {"source", "dest", "fstype", "options", "dump", "pass"}

\* C11: when the watcher, having detected a new hash, cannot build the new
\* collection (in particular when the file is malformed), the snapshot keeps
\* its contents, the write guard is released and the watcher goes back to
\* sleep for the next tick; what readers find in the lock is always a list
\* of records, never an error.
C11_ReparseFailureKeepsSnapshot ==
    /\ [](wpc \notin {"uninit", "init_panicked"} => IsMountList(snapshot))
    /\ [][(wpc = "parse" /\ wpc' # "parse"
              /\ (file = MalformedContent \/ wpc' # "store")) =>
            (snapshot' = snapshot /\ wpc' = "sleep" /\ ~writer')]_vars

\* A re-parse of the malformed content has failed and the watcher sleeps
\* with a non-empty snapshot in place.
C11_Witness ==
    /\ wpc = "sleep"
    /\ "parse" \in faults
    /\ file = MalformedContent
    /\ snapshot # <<>>
    /\ ~writer

(***************************************************************************)
(* C18: lifetime of the watcher thread.                                    *)
(***************************************************************************)

\* C18: the watcher thread, once spawned, never terminates.
C18_WatcherNeverTerminates == wpc # "dead"

(***************************************************************************)
(* C19: the stored hash and the snapshot belong to the same content.       *)
(***************************************************************************)

\* C19: whenever the watcher is between ticks and nothing has failed so far,
\* the stored hash is the hash of a content of which the snapshot is the
\* parse.
C19_HashMatchesSnapshot ==
    (wpc = "sleep" /\ faults = {}) =>
        \E c \in FileContents :
            /\ MountList_new(c, TRUE) = Ok(snapshot)
            /\ modified = get_file_hash(c, "complete").val

(***************************************************************************)
(* C20: the stored hash is set before the lock and the re-parse.           *)
(***************************************************************************)

\* C20: a tick that detects a change stores the new hash before the write
\* guard is taken and before the re-parse; the stored hash stays when the
\* tick ends without a replacement; and a tick that finds the file with the
\* content the stored hash was computed from attempts no re-parse and leaves
\* the snapshot as it is.
C20_StaleUntilNextChange ==
    /\ [][(wpc = "hash" /\ wpc' = "lock") =>
            (/\ modified' = lastHash'.res.val
             /\ ~writer'
             /\ new_swaps' = new_swaps
             /\ snapshot' = snapshot)]_vars
    /\ [][(wpc \in {"lock", "parse"} /\ wpc' = "sleep") => modified' = modified]_vars
    /\ [][(wpc = "hash" /\ wpc' # "hash"
              /\ modified = get_file_hash(file, "complete").val) =>
            (wpc' = "sleep" /\ snapshot' = snapshot /\ modified' = modified)]_vars

(***************************************************************************)
(* Scenario "value": one field is decoded by both variants.                *)
(***************************************************************************)

\* '\', '0', '3', '4', '7', '8', 'a'
ValueBytes == {BSlash, Zero, Zero + 3, Zero + 4, Zero + 7, Zero + 8, 97}

InitValue ==
    /\ pc = "value"
    /\ value \in SeqsUpTo(ValueBytes, MaxValueLen)
    /\ decoded = Idle
    /\ InfoIdle /\ IterIdle /\ ListIdle /\ TabIdle /\ WatchIdle

DecodeValue ==
    /\ pc = "value"
    /\ decoded' = [mount |-> MountInfo_parse_value(value),
                   swap |-> SwapInfo_parse_value(value)]
    /\ pc' = "decoded"
    /\ UNCHANGED <<value, infoVars, iterVars, listVars, tabVars, watchVars>>

NextValue == DecodeValue

SpecValue == InitValue /\ [][NextValue]_vars

(***************************************************************************)
(* Scenario "line": a mount line is parsed, the record is serialized and   *)
(* the serialized text is parsed again.  A line is written from columns;   *)
(* each sample column carries, beside its text, what it stands for.        *)
(***************************************************************************)
Col(txt, val) == [txt |-> txt, val |-> val]

SourceCols ==
    { Col(<<97>>, Ok(<<97>>)),                                  \* a
      Col(<<97, 92, 48, 52, 48, 98>>, Ok(<<97, 32, 98>>)),      \* a\040b
      Col(<<92, 57>>, Err("escape")),                           \* \9
      Col(<<92, 51, 55, 55>>, Err("utf8")),                     \* \377
      Col(DiskByPrefix \o <<120>>, Err("alias")) }              \* /dev/disk/by-x

DestCols ==
    { Col(<<47, 109>>, Ok(<<47, 109>>)),                        \* /m
      Col(<<92, 49, 48, 49>>, Ok(<<65>>)),                      \* \101
      Col(<<92, 49>>, Err("escape")) }                          \* \1

FstypeCols == { Col(<<116>>, <<116>>) }                         \* t

OptionsCols ==
    { Col(<<114, 119>>, <<(<<114, 119>>)>>),                    \* rw
      Col(<<114, 119, 44, 120>>, <<(<<114, 119>>), (<<120>>)>>),  \* rw,x
      Col(<<44>>, <<(<<>>), (<<>>)>>) }                         \* ,

DumpCols ==
    { Col(<<48>>, Ok(0)),                                       \* 0
      Col(<<45, 49>>, Ok(0 - 1)),                               \* -1
      Col(<<120>>, Err("NaN")),                                 \* x
      Col(<<50, 49, 52, 55, 52, 56, 51, 54, 52, 56>>, Err("NaN")) }  \* 2147483648

PassCols ==
    { Col(<<50>>, Ok(2)),                                       \* 2
      Col(<<43, 55>>, Ok(7)),                                   \* +7
      Col(<<49, 120>>, Err("NaN")) }                            \* 1x

ExtraCols == { Col(<<122>>, <<122>>) }                          \* z

ColsAt(k) ==
    CASE k = 1 -> SourceCols
      [] k = 2 -> DestCols
      [] k = 3 -> FstypeCols
      [] k = 4 -> OptionsCols
      [] k = 5 -> DumpCols
      [] k = 6 -> PassCols
      [] OTHER -> ExtraCols

RECURSIVE ColumnSeqs(_)
ColumnSeqs(n) ==
    IF n = 0 THEN {<<>>}
    ELSE {Append(cs, c) : cs \in ColumnSeqs(n - 1), c \in ColsAt(n)}

RECURSIVE JoinCols(_, _)
JoinCols(cols, sep) ==
    IF cols = <<>> THEN <<>>
    ELSE IF Len(cols) = 1 THEN cols[1].txt
    ELSE cols[1].txt \o sep \o JoinCols(Tail(cols), sep)

Lookups == {"Unreadable", "NoDevice", "Device"}

InitLine ==
    /\ pc = "line"
    /\ \E n \in 0 .. (6 + MaxExtraFields) :
         \E cols \in ColumnSeqs(n) :
           \E sep \in {<<Space>>, <<Tab, Space>>} :
             \E wrap \in {<<(<<>>), (<<>>)>>, <<(<<Space>>), (<<NewLine>>)>>} :
               line = [cols |-> cols,
                       bytes |-> wrap[1] \o JoinCols(cols, sep) \o wrap[2]]
    /\ byPath \in IF Len(line.cols) > 0 /\ line.cols[1].val = Err("alias")
                  THEN Lookups ELSE {"NoDevice"}
    /\ parsed = Idle /\ text = Idle /\ reparsed = Idle
    /\ ValueIdle /\ IterIdle /\ ListIdle /\ TabIdle /\ WatchIdle

ParseLine ==
    /\ pc = "line"
    /\ parsed' = MountInfo_from_str(line.bytes, byPath)
    /\ pc' = "parsed"
    /\ UNCHANGED <<line, byPath, text, reparsed>>
    /\ UNCHANGED <<valueVars, iterVars, listVars, tabVars, watchVars>>

DisplayInfo ==
    /\ pc = "parsed"
    /\ parsed.ok
    /\ text' = MountInfo_fmt(parsed.val)
    /\ pc' = "shown"
    /\ UNCHANGED <<line, byPath, parsed, reparsed>>
    /\ UNCHANGED <<valueVars, iterVars, listVars, tabVars, watchVars>>

ReparseText ==
    /\ pc = "shown"
    /\ reparsed' = MountInfo_from_str(text, byPath)
    /\ pc' = "reparsed"
    /\ UNCHANGED <<line, byPath, parsed, text>>
    /\ UNCHANGED <<valueVars, iterVars, listVars, tabVars, watchVars>>

NextLine == ParseLine \/ DisplayInfo \/ ReparseText

SpecLine == InitLine /\ [][NextLine]_vars

(***************************************************************************)
(* C4: mount record parsing.                                               *)
(***************************************************************************)
MissingName(k) ==
    CASE k = 1 -> "missing source"
      [] k = 2 -> "missing dest"
      [] k = 3 -> "missing type"
      [] OTHER -> "missing options"

\* The number a numeric column stands for: 0 when the column is absent.
ColumnNumber(cols, k) == IF Len(cols) < k THEN Ok(0) ELSE cols[k].val

\* The path the source column stands for, given the external lookup.
SourcePath(c, lookup) ==
    IF c.val = Err("alias")
    THEN (IF lookup = "Device" THEN Ok(DevicePath) ELSE Err("alias"))
    ELSE c.val

LineParsed == pc \in {"parsed", "shown", "reparsed"}

\* The part of C4 about the number of fields and the numeric fields.
C4_FieldRules ==
    LET cols == line.cols
        n == Len(cols)
    IN  /\ n < 4 => parsed = Err(MissingName(n + 1))
        /\ (n >= 5 /\ ~cols[5].val.ok) => parsed = Err("dump value is not a number")
        /\ (n >= 6 /\ cols[5].val.ok /\ ~cols[6].val.ok) =>
              parsed = Err("pass value is not a number")

NumbersFine(cols) ==
    Len(cols) >= 4 /\ ColumnNumber(cols, 5).ok /\ ColumnNumber(cols, 6).ok

\* The record the columns stand for.
RecordOf(cols, lookup) ==
    [source |-> SourcePath(cols[1], lookup).val,
     dest |-> cols[2].val.val,
     fstype |-> cols[3].val,
     options |-> cols[4].val,
     dump |-> ColumnNumber(cols, 5).val,
     pass |-> ColumnNumber(cols, 6).val]

\* C4 (as amended): fewer than four fields is a missing-field error naming
\* the first absent field; dump and pass default to 0 when absent and are an
\* invalid-number error when present but no integer; otherwise, when source
\* and dest decode (valid octal escapes, UTF-8, a /dev/disk/by- source that
\* resolves), the result has the decoded source and dest, fstype, the options
\* split on commas in their order, dump and pass; and when source or dest
\* does not decode, parsing fails with that decoding error.
C4_MountRecordParsing ==
    LineParsed =>
        LET cols == line.cols
            src == SourcePath(cols[1], byPath)
        IN  /\ C4_FieldRules
            /\ (NumbersFine(cols) /\ src.ok /\ cols[2].val.ok) =>
                  parsed = Ok(RecordOf(cols, byPath))
            /\ (NumbersFine(cols) /\ ~(src.ok /\ cols[2].val.ok)) =>
                  /\ ~parsed.ok
                  /\ parsed.err \in {"InvalidDigit", "TruncatedOctal", "InvalidData",
                                     "NotFound", "non-utf8 paths are unsupported"}

\* C4 as stated: with four fields or more and well-formed numbers the result
\* is a record holding the fields.
C4_AsStated ==
    LineParsed =>
        /\ C4_FieldRules
        /\ NumbersFine(line.cols) =>
              /\ parsed.ok
              /\ parsed.val.fstype = line.cols[3].val
              /\ parsed.val.options = line.cols[4].val
              /\ parsed.val.dump = ColumnNumber(line.cols, 5).val
              /\ parsed.val.pass = ColumnNumber(line.cols, 6).val

\* A line of four fields, with an escape in its source, parsed to a record
\* whose dump and pass are the defaults.
C4_Witness ==
    /\ LineParsed
    /\ Len(line.cols) = 4
    /\ parsed.ok
    /\ line.cols[1].txt # parsed.val.source
    /\ Len(parsed.val.options) = 2
    /\ parsed.val.dump = 0 /\ parsed.val.pass = 0

(***************************************************************************)
(* C8: round trip of a mount line through Display.                         *)
(***************************************************************************)

\* C8: parsing a valid line, serializing the record and parsing that text
\* again yields a record equal to the first.
C8_RoundTrip ==
    pc = "reparsed" => reparsed = parsed

(***************************************************************************)
(* C3: octal escape decoding.                                              *)
(***************************************************************************)
IsOctal(b) == b \in Zero .. (Zero + 7)

NoBSlash(s) == \A k \in 1 .. Len(s) : s[k] # BSlash

\* Position of the first backslash of s (0 when there is none).
FirstBSlash(s) ==
    IF NoBSlash(s) THEN 0
    ELSE CHOOSE k \in 1 .. Len(s) : s[k] = BSlash /\ NoBSlash(SubSeq(s, 1, k - 1))

\* The backslash at s[k] is followed by three octal digits.
WellFormedAt(s, k) ==
    /\ k + 3 <= Len(s)
    /\ \A j \in 1 .. 3 : IsOctal(s[k + j])

EscapeValue(s, k) == (s[k + 1] - Zero) * 64 + (s[k + 2] - Zero) * 8 + (s[k + 3] - Zero)

\* What the claim's three rules say of result r for input s, with the byte
\* of an escape given by byteOf: no backslash, the bytes pass through; a
\* first backslash that is not followed by three octal digits, an error; one
\* well-formed escape between unescaped bytes, exactly one byte in its place.
DecodesAs(s, r, byteOf(_)) ==
    LET k == FirstBSlash(s)
        rest == SubSeq(s, k + 4, Len(s))
    IN  /\ k = 0 => r = Ok(s)
        /\ (k > 0 /\ ~WellFormedAt(s, k)) =>
              /\ ~r.ok
              /\ r.err \in {"InvalidDigit", "TruncatedOctal"}
        /\ (k > 0 /\ WellFormedAt(s, k) /\ NoBSlash(rest)) =>
              r = Ok(SubSeq(s, 1, k - 1) \o <<byteOf(EscapeValue(s, k))>> \o rest)

LowEightBits(n) == n % 256
Unchanged(n) == n

\* C3 (as amended): every escape \d1d2d3 of octal digits decodes to exactly
\* one byte, the low eight bits of d1*64+d2*8+d3 (that value itself when
\* d1 <= 3); a backslash followed by fewer than three bytes or by a byte that
\* is no octal digit is an escape error; other bytes pass through unchanged.
\* Both variants behave so.
C3_OctalDecoding ==
    pc = "decoded" =>
        /\ DecodesAs(value, decoded.mount, LowEightBits)
        /\ DecodesAs(value, decoded.swap, LowEightBits)

\* C3 as stated: the decoded byte is d1*64+d2*8+d3 for all octal digits.
C3_AsStated ==
    pc = "decoded" =>
        /\ DecodesAs(value, decoded.mount, Unchanged)
        /\ DecodesAs(value, decoded.swap, Unchanged)

\* An escape whose first digit is above 3 was decoded next to a plain byte.
C3_Witness ==
    /\ pc = "decoded"
    /\ Len(value) = 5
    /\ FirstBSlash(value) = 1
    /\ WellFormedAt(value, 1)
    /\ value[2] > Zero + 3
    /\ value[5] = 97
    /\ decoded.mount.ok /\ decoded.swap.ok

(***************************************************************************)
(* Scenario "swapline": a swap line, written from sample columns that      *)
(* carry what they stand for, is parsed.                                   *)
(***************************************************************************)
SwapSourceCols ==
    { Col(<<47, 115>>, Ok(<<47, 115>>)),                        \* /s
      Col(<<97, 92, 48, 52, 48, 98>>, Ok(<<97, 32, 98>>)),      \* a\040b
      Col(<<92, 51, 55, 55>>, Ok(<<255>>)),                     \* \377
      Col(<<92, 57>>, Err("escape")) }                          \* \9

SwapKindCols ==
    { Col(<<112>>, Ok(<<112>>)),                                \* p
      Col(<<92, 49>>, Err("escape")) }                          \* \1

SwapSizeCols ==
    { Col(<<56>>, Ok(8)),                                       \* 8
      Col(<<43, 57>>, Ok(9)),                                   \* +9
      Col(<<92, 48, 54, 55>>, Ok(7)),                           \* \067
      Col(<<45, 49>>, Err("NaN")),                              \* -1
      Col(<<92, 51, 55, 55>>, Err("utf8")) }                    \* \377

SwapUsedCols ==
    { Col(<<48>>, Ok(0)),                                       \* 0
      Col(<<49, 120>>, Err("NaN")),                             \* 1x
      Col(<<92, 56>>, Err("escape")) }                          \* \8

SwapPriorityCols ==
    { Col(<<45, 50>>, Ok(0 - 2)),                               \* -2
      Col(<<53>>, Ok(5)),                                       \* 5
      Col(<<45>>, Err("NaN")) }                                 \* -

SwapColsAt(k) ==
    CASE k = 1 -> SwapSourceCols
      [] k = 2 -> SwapKindCols
      [] k = 3 -> SwapSizeCols
      [] k = 4 -> SwapUsedCols
      [] k = 5 -> SwapPriorityCols
      [] OTHER -> {Col(<<122>>, Ok(<<122>>))}                   \* z

RECURSIVE SwapColumnSeqs(_)
SwapColumnSeqs(n) ==
    IF n = 0 THEN {<<>>}
    ELSE {Append(cs, c) : cs \in SwapColumnSeqs(n - 1), c \in SwapColsAt(n)}

InitSwapLine ==
    /\ pc = "swapline"
    /\ \E n \in 0 .. (5 + MaxExtraFields) :
         \E cols \in SwapColumnSeqs(n) :
           \E sep \in {<<Space>>, <<Tab, Space>>} :
             \E wrap \in {<<(<<>>), (<<>>)>>, <<(<<Space>>), (<<NewLine>>)>>} :
               line = [cols |-> cols,
                       bytes |-> wrap[1] \o JoinCols(cols, sep) \o wrap[2]]
    /\ byPath = Idle /\ parsed = Idle /\ text = Idle /\ reparsed = Idle
    /\ ValueIdle /\ IterIdle /\ ListIdle /\ TabIdle /\ WatchIdle

ParseSwapLine ==
    /\ pc = "swapline"
    /\ parsed' = SwapInfo_from_str(line.bytes)
    /\ pc' = "swapparsed"
    /\ UNCHANGED <<line, byPath, text, reparsed>>
    /\ UNCHANGED <<valueVars, iterVars, listVars, tabVars, watchVars>>

NextSwapLine == ParseSwapLine

SpecSwapLine == InitSwapLine /\ [][NextSwapLine]_vars

(***************************************************************************)
(* C14: swap record parsing.                                               *)
(***************************************************************************)
SwapMissing(k) ==
    CASE k = 1 -> "Missing source"
      [] k = 2 -> "Missing kind"
      [] k = 3 -> "Missing size"
      [] k = 4 -> "Missing used"
      [] OTHER -> "Missing priority"

EscapeErrors == {"InvalidDigit", "TruncatedOctal"}

\* The errors of a present size, used or priority that is no number.
NumberErrors == {"/proc/swaps contains invalid data", "/proc/swaps contains non-UTF8 entry"}

\* The first of the five fields that is absent or not acceptable, 6 when
\* there is none.
FirstBadField(cols) ==
    LET bad == {k \in 1 .. 5 : k > Len(cols) \/ ~cols[k].val.ok}
    IN  IF bad = {} THEN 6 ELSE CHOOSE k \in bad : \A j \in bad : k <= j

SwapRecordOf(cols) ==
    [source |-> cols[1].val.val,
     kind |-> cols[2].val.val,
     size |-> cols[3].val.val,
     used |-> cols[4].val.val,
     priority |-> cols[5].val.val]

\* C14 (as amended): the five fields are taken in order, all mandatory; the
\* parse fails at the first field that is absent (the missing-field error
\* naming it), or whose escapes do not decode (an escape error), or, for
\* size, used and priority, that is no number of its kind (an invalid-data
\* error, which differs from every missing-field error: size and used
\* unsigned, priority signed); when all five are acceptable the result is
\* the record with exactly those values.
C14_SwapRecordParsing ==
    pc = "swapparsed" =>
        LET cols == line.cols
            k == FirstBadField(cols)
        IN  /\ k = 6 => parsed = Ok(SwapRecordOf(cols))
            /\ (k <= 5 /\ k > Len(cols)) => parsed = Err(SwapMissing(k))
            /\ (k <= Len(cols) /\ k <= 5) =>
                  /\ ~parsed.ok
                  /\ cols[k].val.err = "escape" => parsed.err \in EscapeErrors
                  /\ cols[k].val.err \in {"NaN", "utf8"} => parsed.err \in NumberErrors

\* C14 as stated: fewer than five fields is the missing-field error of the
\* first absent field; five fields with a size, used or priority that is no
\* number is an invalid-number error; a valid line is its record.
C14_AsStated ==
    pc = "swapparsed" =>
        LET cols == line.cols
            n == Len(cols)
        IN  /\ n < 5 => parsed = Err(SwapMissing(n + 1))
            /\ (n >= 5 /\ \E j \in 3 .. 5 : ~cols[j].val.ok /\ cols[j].val.err = "NaN") =>
                  ~parsed.ok
            /\ FirstBadField(cols) = 6 => parsed = Ok(SwapRecordOf(cols))

\* A line of three fields whose size is no number was parsed: the error is
\* the invalid-data error of the size, not the missing-field error of used.
C14_Witness ==
    /\ pc = "swapparsed"
    /\ Len(line.cols) = 3
    /\ line.cols[3].val = Err("NaN")
    /\ parsed = Err("/proc/swaps contains invalid data")

(***************************************************************************)
(* Scenario "display": a MountInfo built by the caller from sample fields  *)
(* (its fields are public) is serialized.  Each sample field carries the   *)
(* text it is to be written as.                                            *)
(***************************************************************************)
ShownSourceCols ==
    { Col(<<97>>, <<97>>),                                      \* a
      Col(<<97, 32, 98>>, <<97, 32, 98>>) }                     \* a b

ShownDestCols ==
    { Col(<<47, 109>>, <<47, 109>>),                            \* /m
      Col(<<47>>, <<47>>) }                                     \* /

ShownOptionsCols ==
    { Col(<<114, 119>>, <<(<<114, 119>>)>>),                    \* rw
      Col(<<114, 119, 44, 120>>, <<(<<114, 119>>), (<<120>>)>>),  \* rw,x
      Col(<<44>>, <<(<<>>), (<<>>)>>),                          \* two empty options
      Col(<<100, 101, 102, 97, 117, 108, 116, 115>>, <<>>),     \* no option: defaults
      Col(<<>>, <<(<<>>)>>) }                                   \* one empty option

ShownDumpCols ==
    { Col(<<48>>, 0),                                           \* 0
      Col(<<45, 49>>, 0 - 1),                                   \* -1
      Col(<<49, 48>>, 10),                                      \* 10
      Col(<<50, 49, 52, 55, 52, 56, 51, 54, 52, 55>>, I32Max),  \* 2147483647
      Col(<<45, 50, 49, 52, 55, 52, 56, 51, 54, 52, 56>>, I32Min) }  \* -2147483648

ShownPassCols ==
    { Col(<<50>>, 2),                                           \* 2
      Col(<<48>>, 0) }                                          \* 0

InitDisplay ==
    /\ pc = "display"
    /\ \E c1 \in ShownSourceCols, c2 \in ShownDestCols, c3 \in FstypeCols,
          c4 \in ShownOptionsCols, c5 \in ShownDumpCols, c6 \in ShownPassCols :
          line = [cols |-> <<c1, c2, c3, c4, c5, c6>>,
                  record |-> [source |-> c1.val, dest |-> c2.val, fstype |-> c3.val,
                              options |-> c4.val, dump |-> c5.val, pass |-> c6.val]]
    /\ byPath = Idle /\ parsed = Idle /\ text = Idle /\ reparsed = Idle
    /\ ValueIdle /\ IterIdle /\ ListIdle /\ TabIdle /\ WatchIdle

\* format!("{}", record)
DisplayRecord ==
    /\ pc = "display"
    /\ text' = MountInfo_fmt(line.record)
    /\ pc' = "displayed"
    /\ UNCHANGED <<line, byPath, parsed, reparsed>>
    /\ UNCHANGED <<valueVars, iterVars, listVars, tabVars, watchVars>>

NextDisplay == DisplayRecord

SpecDisplay == InitDisplay /\ [][NextDisplay]_vars

(***************************************************************************)
(* C17: serialization of a mount record.                                   *)
(***************************************************************************)

\* The part of the serialized text that stands between the third field and
\* the last two.
OptionsField ==
    LET c == line.cols
    IN  SubSeq(text,
               Len(c[1].txt) + Len(c[2].txt) + Len(c[3].txt) + 4,
               Len(text) - Len(c[5].txt) - Len(c[6].txt) - 2)

\* C17: the serialized text is the six fields separated by single spaces,
\* the options joined by commas in their stored order and an empty list of
\* options written as `defaults`; and its options field is never empty.
C17_Serialization ==
    pc = "displayed" =>
        /\ text = JoinCols(line.cols, <<Space>>)
        /\ line.record.options = <<>> => OptionsField = Defaults
        /\ OptionsField # <<>>

====
